---- MODULE Spec2Model ----
(***************************************************************************)
(* Authorization core of the Sabor a mi Tierra backend:                    *)
(*   - shared/middleware/auth.ts   authenticate, requirePermission,        *)
(*                                 verifyCsrf                              *)
(*   - modules/identity            AuthService (login, logout,             *)
(*                                 changePassword, refreshSession,         *)
(*                                 createSession) and its routes           *)
(* Persistence (prisma) calls are the atomic steps; a request handler is a *)
(* sequence of such steps, and requests in flight interleave between them. *)
(***************************************************************************)
EXTENDS Integers, Sequences, FiniteSets, TLC

\* JavaScript's null and undefined.
Null == "<null>"
Undefined == "<undefined>"

\* JavaScript truthiness of an optional string: undefined, null and the
\* empty string are falsy.
Truthy(x) == x # Undefined /\ x # Null /\ x # ""

\* req.user of a request no identity was attached to (undefined).
NoUser == [undefined |-> TRUE]

(***************************************************************************)
(* Bounds of the model.                                                    *)
(***************************************************************************)
\* Longest list of role assignments of an identity.
MaxAssignments == 2
\* Longest list of permission grants of one role.
MaxPerms == 2
\* Most requirements handed to one requirePermission(...) call.
MaxChecks == 2
\* Session rows ever created (session ids are never reused); the race of
\* two refreshes runs with one more.
MaxSessions == 2
\* Last instant of the clock, in ticks.
MaxTime == 3
MaxConsents == 2

(***************************************************************************)
(* Time.  The clock (new Date()) counts ticks; a signed assertion carries  *)
(* its expiry in whole seconds (NumericDate), TicksPerSec ticks each.      *)
(* Lifetimes are scaled down: the 7 days of the code are one second here.  *)
(***************************************************************************)
TicksPerSec == 2
\* createSession: expiresAt.setDate(expiresAt.getDate() + 7)
SessionLifetimeSec == 1
\* env.JWT_EXPIRES_IN, default '7d'
JwtExpiresInSec == 1

(***************************************************************************)
(* Permission data: names, scopes, organizations.                          *)
(***************************************************************************)
PermissionNames == {"menu.update", "menu.view"}
\* scope: rp.scope?.name ?? null
GrantScopes == {Null, "self"}
\* organizationId of a role assignment: an organization id or null (global).
AssignmentOrgs == {Null, "org1", "org2"}

\* One element of AuthenticatedUser.roles[i].permissions.
GrantEntries == [permission : PermissionNames, scope : GrantScopes]

\* PermissionCheck: permission, optional scope, optional organizationId.
PermissionChecks ==
    [permission : {"menu.update"},
     scope : {Undefined, "self"},
     organizationId : {Undefined, "", "org1"}]

\* The subsets of S with at most n elements.
RECURSIVE SubsetsUpTo(_, _)
SubsetsUpTo(S, n) ==
    IF n = 0 THEN {{}}
    ELSE LET smaller == SubsetsUpTo(S, n - 1)
         IN smaller \cup {T \cup {x} : T \in smaller, x \in S}

\* An array holding the elements of S, each once.
RECURSIVE SetToSeq(_)
SetToSeq(S) ==
    IF S = {} THEN <<>>
    ELSE LET x == CHOOSE y \in S : TRUE
         IN <<x>> \o SetToSeq(S \ {x})

\* The sequences over S of length 1..n.
SeqsUpTo(S, n) == UNION {[1..k -> S] : k \in 1..n}

\* AuthenticatedUser.roles[i]: organizationId and the role's grants.
RoleAssignments ==
    {[organizationId |-> o, permissions |-> SetToSeq(ps)] :
        o \in AssignmentOrgs, ps \in SubsetsUpTo(GrantEntries, MaxPerms)}

\* req.user as requirePermission sees it: undefined, or an identity.
Identities ==
    {NoUser} \cup
    {[roles |-> SetToSeq(ras)] : ras \in SubsetsUpTo(RoleAssignments, MaxAssignments)}

VARIABLES
    authzUser,      \* req.user handed to the authorization gate
    authzChecks,    \* the requirements the route was built with
    authzOutcome,   \* "pending", "next", "Forbidden" or "Unauthenticated"
    authzRoleNames, \* the role names a requireRole route was built with
    roleOutcome,    \* requireRole's outcome, as authzOutcome
    now,            \* the clock, in ticks
    users,          \* User rows by id: email, passwordHash, isActive, lastLoginAt
    sessions,       \* Session rows: id, userId, csrfToken, expiresAt
    roleAssignments,\* UserRoleAssignment rows: userId, role, organizationId
    nextSessionId,  \* the next fresh session id
    issued,         \* credentials handed to clients: the assertion (auth_token
                    \* cookie), the route that returned it, the session it replaced
    pc,             \* where each request in flight stands
    req,            \* each request: inputs, req.user, locals, response
    consents        \* Consent rows: id, profileId, type, granted, revokedAt

authzVars == <<authzUser, authzChecks, authzOutcome, authzRoleNames, roleOutcome>>
dbVars == <<users, sessions, roleAssignments, nextSessionId>>
vars == <<authzUser, authzChecks, authzOutcome, authzRoleNames, roleOutcome,
          now, users, sessions, roleAssignments, nextSessionId, issued, pc, req,
          consents>>

(***************************************************************************)
(* requirePermission (shared/middleware/auth.ts).                          *)
(***************************************************************************)
\* Mutant: a global (organization-less) assignment passes every organization check.
OrgMismatchGlobalBypass(check, roleAssignment) ==
    Truthy(check.organizationId)
        /\ roleAssignment.organizationId # Null
        /\ roleAssignment.organizationId # check.organizationId

\* auth.ts:105  check.organizationId && ra.organizationId !== check.organizationId
OrgMismatch(check, roleAssignment) ==
    Truthy(check.organizationId)
        /\ roleAssignment.organizationId # check.organizationId

\* Mutant: the scope of the grant is not compared.
PermMatchesIgnoringScope(perm, check) ==
    perm.permission = check.permission

\* auth.ts:111-113  permissionMatch && scopeMatch
PermMatches(perm, check) ==
    LET permissionMatch == perm.permission = check.permission
        scopeMatch == ~Truthy(check.scope) \/ perm.scope = check.scope
    IN permissionMatch /\ scopeMatch

\* auth.ts:110  roleAssignment.permissions.some(...)
RECURSIVE SomePermission(_, _)
SomePermission(permissions, check) ==
    IF permissions = <<>> THEN FALSE
    ELSE IF PermMatches(Head(permissions), check) THEN TRUE
    ELSE SomePermission(Tail(permissions), check)

\* auth.ts:103-115  the callback of req.user.roles.some(...)
AssignmentSatisfies(roleAssignment, check) ==
    IF OrgMismatch(check, roleAssignment) THEN FALSE
    ELSE SomePermission(roleAssignment.permissions, check)

\* auth.ts:103  req.user.roles.some(...)
RECURSIVE SomeRole(_, _)
SomeRole(roles, check) ==
    IF roles = <<>> THEN FALSE
    ELSE IF AssignmentSatisfies(Head(roles), check) THEN TRUE
    ELSE SomeRole(Tail(roles), check)

\* Mutant: checks.every(...) in place of checks.some(...).
RECURSIVE HasPermissionEvery(_, _)
HasPermissionEvery(user, checks) ==
    IF checks = <<>> THEN TRUE
    ELSE IF ~SomeRole(user.roles, Head(checks)) THEN FALSE
    ELSE HasPermissionEvery(user, Tail(checks))

\* auth.ts:102  checks.some(...)
RECURSIVE HasPermission(_, _)
HasPermission(user, checks) ==
    IF checks = <<>> THEN FALSE
    ELSE IF SomeRole(user.roles, Head(checks)) THEN TRUE
    ELSE HasPermission(user, Tail(checks))

\* auth.ts:97-125  the middleware's outcome
RequirePermissionOutcome(user, checks) ==
    IF user = NoUser THEN "Unauthenticated"
    ELSE IF ~HasPermission(user, checks) THEN "Forbidden"
    ELSE "next"

\* The middleware runs once for the request.
RequirePermission ==
    /\ authzOutcome = "pending"
    /\ authzOutcome' = RequirePermissionOutcome(authzUser, authzChecks)
    /\ UNCHANGED <<authzUser, authzChecks, authzRoleNames, roleOutcome>>
    /\ UNCHANGED <<now, dbVars, issued, pc, req, consents>>

(***************************************************************************)
(* requireRole (shared/middleware/auth.ts).                                *)
(***************************************************************************)
\* roleNames.includes(name)
RECURSIVE Includes(_, _)
Includes(roleNames, name) ==
    IF roleNames = <<>> THEN FALSE
    ELSE IF Head(roleNames) = name THEN TRUE
    ELSE Includes(Tail(roleNames), name)

\* Mutant: only global (organization-less) assignments count.
RECURSIVE HasRoleGlobalOnly(_, _)
HasRoleGlobalOnly(user, roleNames) ==
    IF user.roles = <<>> THEN FALSE
    ELSE IF /\ Includes(roleNames, Head(user.roles).role)
            /\ Head(user.roles).organizationId = Null THEN TRUE
    ELSE HasRoleGlobalOnly([user EXCEPT !.roles = Tail(user.roles)], roleNames)

\* auth.ts:140  req.user.roles.some((ra) => roleNames.includes(ra.role.name))
RECURSIVE HasRole(_, _)
HasRole(user, roleNames) ==
    IF user.roles = <<>> THEN FALSE
    ELSE IF Includes(roleNames, Head(user.roles).role) THEN TRUE
    ELSE HasRole([user EXCEPT !.roles = Tail(user.roles)], roleNames)

\* Mutant: the identity is not tested before the roles are.
RequireRoleOutcomeNoIdentityTest(user, roleNames) ==
    IF user = NoUser \/ ~HasRole(user, roleNames) THEN "Forbidden"
    ELSE "next"

\* auth.ts:136-146  the middleware's outcome
RequireRoleOutcome(user, roleNames) ==
    IF user = NoUser THEN "Unauthenticated"
    ELSE IF ~HasRole(user, roleNames) THEN "Forbidden"
    ELSE "next"

\* The middleware runs once for the request.
RequireRole ==
    /\ roleOutcome = "pending"
    /\ roleOutcome' = RequireRoleOutcome(authzUser, authzRoleNames)
    /\ UNCHANGED <<authzUser, authzChecks, authzOutcome, authzRoleNames>>
    /\ UNCHANGED <<now, dbVars, issued, pc, req, consents>>

(***************************************************************************)
(* Users, credentials, signed assertions, session rows.                    *)
(***************************************************************************)
Users == {"u1", "u2"}
Passwords == {"pw1", "pw2"}
\* The requests that may be in flight at once.
Reqs == {"r1", "r2"}

\* E-mail addresses as the characters they are made of.
Emails == {<<"a">>, <<"A">>, <<"b">>}

\* Mutant: the character is kept as typed.
KeepChar(c) == c

\* One character of String.prototype.toLowerCase().
LowerChar(c) ==
    CASE c = "A" -> "a"
      [] c = "B" -> "b"
      [] OTHER -> c

\* input.email.toLowerCase()
toLowerCase(email) == [i \in DOMAIN email |-> LowerChar(email[i])]

\* prisma.user.findUnique({ where: { email } }): the user's id, or null.
FindUserByEmail(email) ==
    IF \E u \in DOMAIN users : users[u].email = email
    THEN CHOOSE u \in DOMAIN users : users[u].email = email
    ELSE Null

\* Credential store: a one-way hash and its verification.
hashPassword(password) == [hashOf |-> password]
verifyPassword(password, passwordHash) == passwordHash = hashPassword(password)

\* The auth_token cookie: absent, not signed with JWT_SECRET, or an assertion.
NoToken == [kind |-> "none"]
ForgedToken == [kind |-> "forged"]

\* jwt.sign({userId, sessionId}, JWT_SECRET, {expiresIn}): exp = iat + expiresIn,
\* iat the signing instant in whole seconds.
JwtSign(userId, sessionId, at) ==
    [kind |-> "jwt", userId |-> userId, sessionId |-> sessionId,
     exp |-> (at \div TicksPerSec) + JwtExpiresInSec]

\* jwt.verify(token, JWT_SECRET): the signature, then clockTimestamp >= exp fails.
JwtVerify(token, at) ==
    token.kind = "jwt" /\ (at \div TicksPerSec) < token.exp

\* crypto.randomBytes(32).toString('hex'): the n-th draw; draws never repeat.
RandomHex == <<"c1", "c2", "c3", "c4", "c5", "c6", "c7", "c8">>

NoSession == [id |-> 0]

\* prisma.session.findUnique({ where: { id } })
FindSession(id) ==
    IF \E s \in sessions : s.id = id
    THEN CHOOSE s \in sessions : s.id = id
    ELSE NoSession

\* Mutant: the delete leaves the row in place.
SessionDeleteNothing(id) == sessions

\* Mutant: the delete takes every session of the row's user with it.
SessionDeleteOfUser(id) ==
    {s \in sessions : \A t \in sessions : t.id = id => s.userId # t.userId}

\* prisma.session.delete({ where: { id } }): the rows that remain.
SessionDelete(id) == {s \in sessions : s.id # id}

\* Role -> RolePermission rows as seeded (every grant has a null scope).
RoleGrants(role) ==
    CASE role = "consumer" ->
            <<[permission |-> "menu.view", scope |-> Null]>>
      [] role = "franchise_owner" ->
            <<[permission |-> "organization.member.add", scope |-> Null],
              [permission |-> "organization.member.remove", scope |-> Null],
              [permission |-> "menu.manage", scope |-> Null]>>
      [] OTHER -> <<>>

\* auth.ts:67-79  the identity built from the session's user.
AuthenticatedUser(session) ==
    [id |-> session.userId,
     email |-> users[session.userId].email,
     sessionId |-> session.id,
     roles |-> SetToSeq({[role |-> ra.role,
                          organizationId |-> ra.organizationId,
                          permissions |-> RoleGrants(ra.role)] :
                            ra \in {x \in roleAssignments : x.userId = session.userId}})]

(***************************************************************************)
(* Requests and responses.                                                 *)
(***************************************************************************)
NoBody == [none |-> TRUE]
NoLocal == [none |-> TRUE]
NoRes == [status |-> 0]

IdleReq ==
    [op |-> "none", cookie |-> NoToken, header |-> Undefined, body |-> NoBody,
     user |-> NoUser, csrfToken |-> Undefined, local |-> NoLocal, res |-> NoRes,
     clearCookie |-> FALSE]

\* res.json({ success: true, ... }); the assertion of a login or refresh goes
\* to the client with it (issued).
Ok == [status |-> 200, code |-> "OK", message |-> ""]
\* res.status(201).json({ success: true, ... }) of POST /auth/register
Created == [status |-> 201, code |-> "OK", message |-> ""]
\* errorHandler on a ConflictError
ConflictError(message) ==
    [status |-> 409, code |-> "CONFLICT", message |-> message]
\* errorHandler on an AppError: err.statusCode, err.code, err.message
UnauthorizedError(message) ==
    [status |-> 401, code |-> "UNAUTHORIZED", message |-> message]
ForbiddenError(message) ==
    [status |-> 403, code |-> "FORBIDDEN", message |-> message]
\* errorHandler on any other error (prisma's record-not-found among them)
InternalError == [status |-> 500, code |-> "INTERNAL_ERROR", message |-> ""]
\* POST /auth/refresh when refreshSession returns null
SessionExpired ==
    [status |-> 401, code |-> "SESSION_EXPIRED", message |-> "Session expired"]

\* The response is sent: what is left of the request is its route, its
\* response and whether res.clearCookie('auth_token') went with it.
Respond(r, res, clearCookie) ==
    /\ pc' = [pc EXCEPT ![r] = "done"]
    /\ req' = [req EXCEPT ![r] = [IdleReq EXCEPT !.op = req[r].op, !.res = res,
                                                 !.clearCookie = clearCookie]]

\* A response of errorHandler, or of a route that leaves the cookie alone.
Finish(r, res) == Respond(r, res, FALSE)

\* A response of a route that calls res.clearCookie('auth_token') first.
FinishClearCookie(r, res) == Respond(r, res, TRUE)

\* A credential handed to a client by register or login (replaced = 0) or by
\* refresh; email is the address a registration was made with, empty otherwise.
Issued(token, via, replaced, email) ==
    [token |-> token, via |-> via, replaced |-> replaced, email |-> email]

\* The assertions clients hold.
IssuedTokens == {c.token : c \in issued}

\* The auth_token cookies a client may present.
Cookies == {NoToken, ForgedToken} \cup IssuedTokens
\* The X-CSRF-Token headers a client may present: none, empty, or any CSRF
\* token drawn so far.
CsrfHeaders == {Undefined, ""} \cup {RandomHex[i] : i \in 1..(nextSessionId - 1)}

\* Requests are anonymous: a new one takes the first free slot.
FreeSlot(r) ==
    /\ pc[r] \in {"idle", "done"}
    /\ r = "r2" => pc["r1"] \notin {"idle", "done"}

Begin(r, op, cookie, header, body, at) ==
    /\ FreeSlot(r)
    /\ req' = [req EXCEPT ![r] =
                [IdleReq EXCEPT !.op = op, !.cookie = cookie,
                                !.header = header, !.body = body]]
    /\ pc' = [pc EXCEPT ![r] = at]
    /\ UNCHANGED <<now, dbVars, issued, authzVars, consents>>

\* POST /auth/login arrives.
StartLogin(r) ==
    \E e \in Emails, p \in Passwords :
        Begin(r, "login", NoToken, Undefined, [email |-> e, password |-> p], "login")

\* POST /auth/register arrives.
StartRegister(r) ==
    \E e \in Emails :
        Begin(r, "register", NoToken, Undefined,
              [email |-> e, password |-> "pw1"], "register_find")

\* GET /auth/me arrives.
StartMe(r) ==
    \E c \in Cookies : Begin(r, "me", c, Undefined, NoBody, "authenticate")

\* POST /auth/logout arrives.
StartLogout(r) ==
    \E c \in Cookies :
        Begin(r, "logout", c, Undefined, NoBody, "authenticate")

\* POST /auth/refresh arrives.
StartRefresh(r) ==
    \E c \in Cookies :
        Begin(r, "refresh", c, Undefined, NoBody, "authenticate")

\* POST /auth/change-password arrives; its body is drawn where the service
\* reads it.
StartChangePassword(r) ==
    \E c \in Cookies, h \in CsrfHeaders :
        Begin(r, "changePassword", c, h, NoBody, "authenticate")

(***************************************************************************)
(* authenticate and verifyCsrf (shared/middleware/auth.ts).                *)
(***************************************************************************)
\* auth.ts:58  !session || session.expiresAt < new Date()
SessionExpiredOrInvalid(session, at) ==
    session = NoSession \/ session.expiresAt < at

\* auth.ts:17-64  "next", or the message of the UnauthorizedError thrown.
AuthenticateOutcome(token, at) ==
    IF token = NoToken THEN "No authentication token provided"
    ELSE IF ~JwtVerify(token, at) THEN "Invalid or expired token"
    ELSE LET session == FindSession(token.sessionId)
         IN IF SessionExpiredOrInvalid(session, at)
                THEN "Session expired or invalid"
            ELSE IF ~users[session.userId].isActive
                THEN "User account is deactivated"
            ELSE "next"

\* Where the route goes after authenticate called next().
AfterAuthenticate(op) ==
    CASE op = "logout" -> "logout_find"
      [] op = "refresh" -> "refresh_find"
      [] op = "changePassword" -> "verifyCsrf"
      [] op = "consent" -> "consent_find"
      [] op \in {"addMember", "removeMember"} -> "member_permission"
      [] OTHER -> "done"

\* Mutant: the session row that was found is consumed by the lookup.
SessionFindConsumes(id) == {s \in sessions : s.id # id}

\* auth.ts:34-56  prisma.session.findUnique is authenticate's only call on
\* the database; it reads: these are the session rows after it.
SessionFindUnique(id) == sessions

\* authenticate; GET /auth/me answers at once from req.user.
Authenticate(r) ==
    /\ pc[r] = "authenticate"
    /\ LET token == req[r].cookie
           outcome == AuthenticateOutcome(token, now)
       IN IF outcome = "next"
          THEN LET session == FindSession(token.sessionId)
               IN IF req[r].op = "me"
                  THEN Finish(r, Ok)
                  ELSE /\ req' = [req EXCEPT ![r].user = AuthenticatedUser(session),
                                             ![r].csrfToken = session.csrfToken,
                                             ![r].cookie = NoToken]
                       /\ pc' = [pc EXCEPT ![r] = AfterAuthenticate(req[r].op)]
          ELSE Finish(r, UnauthorizedError(outcome))
    /\ sessions' = IF JwtVerify(req[r].cookie, now)
                    THEN SessionFindUnique(req[r].cookie.sessionId)
                    ELSE sessions
    /\ UNCHANGED <<now, users, roleAssignments, nextSessionId, issued, authzVars, consents>>

\* Mutant: the header is looked up among the CSRF tokens of all sessions.
CsrfRejectedUnknownOnly(csrfHeader, csrfToken) ==
    ~Truthy(csrfHeader) \/ csrfHeader \notin {s.csrfToken : s \in sessions}

\* Mutant: only the presence of the header is tested.
CsrfRejectedAbsentOnly(csrfHeader, csrfToken) ==
    ~Truthy(csrfHeader)

\* auth.ts:160  !csrfHeader || csrfHeader !== req.csrfToken
CsrfRejected(csrfHeader, csrfToken) ==
    ~Truthy(csrfHeader) \/ csrfHeader # csrfToken

\* verifyCsrf, on POST /auth/change-password only.
VerifyCsrf(r) ==
    /\ pc[r] = "verifyCsrf"
    /\ IF CsrfRejected(req[r].header, req[r].csrfToken)
       THEN Finish(r, ForbiddenError("Invalid CSRF token"))
       ELSE /\ pc' = [pc EXCEPT ![r] = "changePassword_find"]
            /\ UNCHANGED req
    /\ UNCHANGED <<now, dbVars, issued, authzVars, consents>>

(***************************************************************************)
(* AuthService (modules/identity/auth.service.ts) and its routes.          *)
(***************************************************************************)
\* Mutant: lastLoginAt is written whatever the credential check said.
LoginRejectedWrites(userId, at) ==
    IF userId = Null THEN users
    ELSE [users EXCEPT ![userId].lastLoginAt = <<at>>]

\* auth.service.ts:87-99  the three throws of login come before its first
\* write: these are the User rows after a rejected login.
LoginRejected(userId, at) == users

\* login: findUnique by email, the active flag, verifyPassword, then
\* user.update of lastLoginAt; createSession follows.
Login(r) ==
    /\ pc[r] = "login"
    /\ LET body == req[r].body
           userId == FindUserByEmail(toLowerCase(body.email))
       IN IF userId = Null
            THEN /\ Finish(r, UnauthorizedError("Invalid email or password"))
                 /\ users' = LoginRejected(userId, now)
          ELSE IF ~users[userId].isActive
            THEN /\ Finish(r, UnauthorizedError("Account is deactivated"))
                 /\ users' = LoginRejected(userId, now)
          ELSE IF ~verifyPassword(body.password, users[userId].passwordHash)
            THEN /\ Finish(r, UnauthorizedError("Invalid email or password"))
                 /\ users' = LoginRejected(userId, now)
          ELSE /\ users' = [users EXCEPT ![userId].lastLoginAt = <<now>>]
               /\ pc' = [pc EXCEPT ![r] = "createSession"]
               /\ req' = [req EXCEPT ![r].local = [userId |-> userId]]
    /\ UNCHANGED <<now, sessions, roleAssignments, nextSessionId, issued,
                   authzVars, consents>>

\* The ids the database gives to new users, in order.
UserIds == <<"u1", "u2">>

\* The id of the next user row; users are never deleted.
NewUserId == UserIds[Cardinality(DOMAIN users) + 1]

\* register: findUnique by the lower-cased email, ConflictError when found,
\* hashPassword otherwise.
RegisterFind(r) ==
    /\ pc[r] = "register_find"
    /\ LET existingUser == FindUserByEmail(toLowerCase(req[r].body.email))
       IN IF existingUser # Null
          THEN Finish(r, ConflictError("Email already registered"))
          ELSE /\ pc' = [pc EXCEPT ![r] = "register_create"]
               /\ req' = [req EXCEPT ![r].local =
                            [passwordHash |-> hashPassword(req[r].body.password)]]
    /\ UNCHANGED <<now, dbVars, issued, authzVars, consents>>

\* register: prisma.user.create of the user with its profile; the unique
\* index on email makes it throw when the address is taken by now.
RegisterCreate(r) ==
    /\ pc[r] = "register_create"
    /\ LET email == toLowerCase(req[r].body.email)
       IN IF FindUserByEmail(email) # Null
          THEN /\ Finish(r, InternalError)
               /\ UNCHANGED users
          ELSE /\ Cardinality(DOMAIN users) < Len(UserIds)
               /\ users' = [u \in DOMAIN users \cup {NewUserId} |->
                               IF u = NewUserId
                               THEN [email |-> email,
                                     passwordHash |-> req[r].local.passwordHash,
                                     isActive |-> TRUE,
                                     lastLoginAt |-> <<>>]
                               ELSE users[u]]
               /\ req' = [req EXCEPT ![r].local = [userId |-> NewUserId]]
               /\ pc' = [pc EXCEPT ![r] = "register_role"]
    /\ UNCHANGED <<now, sessions, roleAssignments, nextSessionId, issued, authzVars, consents>>

\* register: the default consumer role; createSession follows.
RegisterAssignRole(r) ==
    /\ pc[r] = "register_role"
    /\ roleAssignments' = roleAssignments \cup
            {[userId |-> req[r].local.userId, role |-> "consumer",
              organizationId |-> Null]}
    /\ pc' = [pc EXCEPT ![r] = "createSession"]
    /\ UNCHANGED <<now, users, sessions, nextSessionId, issued, req, authzVars, consents>>

\* Mutant: the lowest id no session row carries is taken again.
LowestFreeSessionId ==
    CHOOSE i \in 1..nextSessionId :
        /\ \A s \in sessions : s.id # i
        /\ \A j \in 1..(i - 1) : \E s \in sessions : s.id = j

\* The id prisma.session.create gives the new row: never given before.
NewSessionId == nextSessionId

\* Mutant: new Date() without the setDate that adds the lifetime.
SessionExpiresAtUnset(at) == at

\* auth.service.ts:216-217  expiresAt = new Date(), moved 7 days ahead.
SessionExpiresAt(at) == at + SessionLifetimeSec * TicksPerSec

\* createSession, first half: expiresAt = now + 7 days, the random tokens,
\* prisma.session.create.
CreateSession(r, cap) ==
    /\ pc[r] = "createSession"
    /\ nextSessionId <= cap
    /\ LET session == [id |-> NewSessionId,
                       userId |-> req[r].local.userId,
                       csrfToken |-> RandomHex[nextSessionId],
                       expiresAt |-> SessionExpiresAt(now)]
       IN /\ sessions' = sessions \cup {session}
          /\ req' = [req EXCEPT ![r].local =
                        [userId |-> req[r].local.userId,
                         old |-> IF req[r].op = "refresh" THEN req[r].local.old ELSE 0,
                         newSession |-> session,
                         token |-> NoToken]]
    /\ nextSessionId' = nextSessionId + 1
    /\ pc' = [pc EXCEPT ![r] = "sign"]
    /\ UNCHANGED <<now, users, roleAssignments, issued, authzVars, consents>>

\* createSession, second half: jwt.sign once the insert has returned.  login
\* then answers with the assertion; refreshSession goes on to delete the old row.
Sign(r) ==
    /\ pc[r] = "sign"
    /\ LET session == req[r].local.newSession
           token == JwtSign(session.userId, session.id, now)
       IN IF req[r].op \in {"login", "register"}
          THEN /\ Finish(r, IF req[r].op = "register" THEN Created ELSE Ok)
               /\ issued' = issued \cup
                    {Issued(token, req[r].op, 0,
                            IF req[r].op = "register" THEN req[r].body.email
                            ELSE <<>>)}
          ELSE /\ req' = [req EXCEPT ![r].local.token = token]
               /\ pc' = [pc EXCEPT ![r] = "refresh_delete"]
               /\ UNCHANGED issued
    /\ UNCHANGED <<now, dbVars, authzVars, consents>>

\* logout: prisma.session.findUnique.
LogoutFind(r) ==
    /\ pc[r] = "logout_find"
    /\ IF FindSession(req[r].user.sessionId) # NoSession
       THEN /\ pc' = [pc EXCEPT ![r] = "logout_delete"]
            /\ UNCHANGED req
       ELSE FinishClearCookie(r, Ok)
    /\ UNCHANGED <<now, dbVars, issued, authzVars, consents>>

\* logout: prisma.session.delete, which throws when the row is gone.
LogoutDelete(r) ==
    /\ pc[r] = "logout_delete"
    /\ LET session == FindSession(req[r].user.sessionId)
       IN IF session # NoSession
          THEN /\ sessions' = SessionDelete(session.id)
               /\ FinishClearCookie(r, Ok)
          ELSE /\ UNCHANGED sessions
               /\ Finish(r, InternalError)
    /\ UNCHANGED <<now, users, roleAssignments, nextSessionId, issued, authzVars, consents>>

\* changePassword: findUnique, verifyPassword, hashPassword.
ChangePasswordFind(r) ==
    /\ pc[r] = "changePassword_find"
    /\ \E currentPassword \in Passwords, newPassword \in Passwords :
        LET user == users[req[r].user.id]
        IN IF ~verifyPassword(currentPassword, user.passwordHash)
           THEN Finish(r, UnauthorizedError("Current password is incorrect"))
           ELSE /\ req' = [req EXCEPT ![r].local =
                            [passwordHash |-> hashPassword(newPassword)]]
                /\ pc' = [pc EXCEPT ![r] = "changePassword_txn"]
    /\ UNCHANGED <<now, users, sessions, roleAssignments, nextSessionId, issued, authzVars, consents>>

\* Mutant: the transaction without its session.deleteMany.
ChangePasswordWritesHashOnly(userId, passwordHash) ==
    /\ users' = [users EXCEPT ![userId].passwordHash = passwordHash]
    /\ sessions' = sessions

\* auth.service.ts:170-178  the two writes of prisma.$transaction([...]).
ChangePasswordWrites(userId, passwordHash) ==
    /\ users' = [users EXCEPT ![userId].passwordHash = passwordHash]
    /\ sessions' = {s \in sessions : s.userId # userId}

\* changePassword: the transaction; the route then clears the cookie.
ChangePasswordTxn(r) ==
    /\ pc[r] = "changePassword_txn"
    /\ ChangePasswordWrites(req[r].user.id, req[r].local.passwordHash)
    /\ FinishClearCookie(r, Ok)
    /\ UNCHANGED <<now, roleAssignments, nextSessionId, issued, authzVars, consents>>

\* refreshSession: findUnique and the expiry test; null becomes SESSION_EXPIRED.
RefreshFind(r) ==
    /\ pc[r] = "refresh_find"
    /\ LET session == FindSession(req[r].user.sessionId)
       IN IF SessionExpiredOrInvalid(session, now)
          THEN FinishClearCookie(r, SessionExpired)
          ELSE /\ pc' = [pc EXCEPT ![r] = "createSession"]
               /\ req' = [req EXCEPT ![r].local =
                            [userId |-> session.userId, old |-> session.id]]
    /\ UNCHANGED <<now, dbVars, issued, authzVars, consents>>

\* refreshSession: prisma.session.delete of the old row, which throws when
\* the row is gone; otherwise the new assertion is returned.
RefreshDelete(r) ==
    /\ pc[r] = "refresh_delete"
    /\ LET old == FindSession(req[r].local.old)
           token == req[r].local.token
       IN IF old # NoSession
          THEN /\ sessions' = SessionDelete(old.id)
               /\ issued' = issued \cup {Issued(token, "refresh", old.id, <<>>)}
               /\ Finish(r, Ok)
          ELSE /\ UNCHANGED <<sessions, issued>>
               /\ Finish(r, InternalError)
    /\ UNCHANGED <<now, users, roleAssignments, nextSessionId, authzVars, consents>>

(***************************************************************************)
(* POST /profile/consents (modules/profile/index.ts).  A user's Profile    *)
(* row is created with the user, so its id stands for the user's.  Audit   *)
(* rows are only ever appended and no route reads them: they are left out. *)
(***************************************************************************)
ConsentTypes == {"marketing", "analytics"}

\* revokedAt of a consent that has not been revoked (null).
NotRevoked == <<>>

\* POST /profile/consents arrives.
StartConsent(r) ==
    \E c \in Cookies, type \in ConsentTypes, granted \in BOOLEAN :
        Begin(r, "consent", c, Undefined,
              [type |-> type, granted |-> granted], "authenticate")

\* profile/index.ts:196-197  prisma.profile.findUnique by userId.
ConsentFindProfile(r) ==
    /\ pc[r] = "consent_find"
    /\ IF req[r].user.id \in DOMAIN users
       THEN /\ req' = [req EXCEPT ![r].local = [profileId |-> req[r].user.id]]
            /\ pc' = [pc EXCEPT ![r] = "consent_revoke"]
       ELSE Finish(r, [status |-> 404, code |-> "NOT_FOUND",
                       message |-> "Profile not found"])
    /\ UNCHANGED <<now, dbVars, issued, authzVars, consents>>

\* profile/index.ts:200-203  prisma.consent.updateMany: the rows afterwards.
ConsentUpdateMany(profileId, type, at) ==
    {IF c.profileId = profileId /\ c.type = type /\ c.revokedAt = NotRevoked
        THEN [c EXCEPT !.revokedAt = <<at>>]
        ELSE c : c \in consents}

\* The revoke of the existing consents of the type, a statement of its own.
ConsentRevoke(r) ==
    /\ pc[r] = "consent_revoke"
    /\ consents' = ConsentUpdateMany(req[r].local.profileId, req[r].body.type, now)
    /\ pc' = [pc EXCEPT ![r] = "consent_create"]
    /\ UNCHANGED <<now, dbVars, issued, req, authzVars>>

\* profile/index.ts:206-215  prisma.consent.create, then the response.
ConsentCreate(r) ==
    /\ pc[r] = "consent_create"
    /\ Cardinality(consents) < MaxConsents
    /\ consents' = consents \cup
            {[id |-> Cardinality(consents) + 1,
              profileId |-> req[r].local.profileId,
              type |-> req[r].body.type,
              granted |-> req[r].body.granted,
              grantedAt |-> now,
              revokedAt |-> NotRevoked]}
    /\ Finish(r, Ok)
    /\ UNCHANGED <<now, dbVars, issued, authzVars>>

(***************************************************************************)
(* Organization members (modules/organization/index.ts).  Audit rows are   *)
(* left out, as above.                                                     *)
(***************************************************************************)
Organizations == {"org1", "org2"}

\* POST /organizations/:id/members arrives; the params travel with the body.
StartAddMember(r) ==
    \E c \in Cookies, id \in Organizations, userId \in DOMAIN users :
        Begin(r, "addMember", c, Undefined,
              [id |-> id, userId |-> userId, roleId |-> "franchise_owner"],
              "authenticate")

\* DELETE /organizations/:id/members/:userId arrives.
StartRemoveMember(r) ==
    \E c \in Cookies, id \in Organizations, userId \in DOMAIN users :
        Begin(r, "removeMember", c, Undefined,
              [id |-> id, userId |-> userId], "authenticate")

\* organization/index.ts:145,183  the requirement each route is built with.
MemberRequirement(op) ==
    <<[permission |-> IF op = "addMember" THEN "organization.member.add"
                      ELSE "organization.member.remove",
       scope |-> Undefined,
       organizationId |-> Undefined]>>

\* requirePermission as the second middleware of both routes.
MemberPermission(r) ==
    /\ pc[r] = "member_permission"
    /\ LET outcome == RequirePermissionOutcome(req[r].user, MemberRequirement(req[r].op))
       IN IF outcome = "next"
          THEN /\ pc' = [pc EXCEPT ![r] = IF req[r].op = "addMember"
                                          THEN "member_create"
                                          ELSE "member_deleteMany"]
               /\ UNCHANGED req
          ELSE IF outcome = "Forbidden"
          THEN Finish(r, ForbiddenError("Insufficient permissions"))
          ELSE Finish(r, UnauthorizedError("Authentication required"))
    /\ UNCHANGED <<now, dbVars, issued, authzVars, consents>>

\* organization/index.ts:150-161  prisma.userRoleAssignment.create; inserting
\* an assignment that is already there changes nothing, whether the
\* database accepts or refuses it.
MemberCreate(r) ==
    /\ pc[r] = "member_create"
    /\ LET member == [userId |-> req[r].body.userId,
                      role |-> req[r].body.roleId,
                      organizationId |-> req[r].body.id]
       IN IF member \in roleAssignments
          THEN /\ UNCHANGED roleAssignments
               /\ \E res \in {Created, InternalError} : Finish(r, res)
          ELSE /\ roleAssignments' = roleAssignments \cup {member}
               /\ Finish(r, Created)
    /\ UNCHANGED <<now, users, sessions, nextSessionId, issued, authzVars, consents>>

\* organization/index.ts:186-191  prisma.userRoleAssignment.deleteMany
MemberDeleteMany(r) ==
    /\ pc[r] = "member_deleteMany"
    /\ roleAssignments' =
            {ra \in roleAssignments :
                ~(ra.organizationId = req[r].body.id /\ ra.userId = req[r].body.userId)}
    /\ Finish(r, Ok)
    /\ UNCHANGED <<now, users, sessions, nextSessionId, issued, authzVars, consents>>

(***************************************************************************)
(* The environment: the clock, and an administrator deactivating a user.   *)
(***************************************************************************)
Tick ==
    /\ now < MaxTime
    /\ now' = now + 1
    /\ UNCHANGED <<dbVars, issued, pc, req, authzVars, consents>>

Deactivate(u) ==
    /\ users[u].isActive
    /\ users' = [users EXCEPT ![u].isActive = FALSE]
    /\ UNCHANGED <<now, sessions, roleAssignments, nextSessionId, issued,
                   pc, req, authzVars, consents>>

\* One step of request r: login, logout, change-password or refresh.
Step(r) ==
    \/ StartLogin(r)
    \/ StartLogout(r)
    \/ StartChangePassword(r)
    \/ Authenticate(r)
    \/ VerifyCsrf(r)
    \/ Login(r)
    \/ CreateSession(r, MaxSessions)
    \/ Sign(r)
    \/ LogoutFind(r)
    \/ LogoutDelete(r)
    \/ ChangePasswordFind(r)
    \/ ChangePasswordTxn(r)
    \/ StartRefresh(r)
    \/ RefreshFind(r)
    \/ RefreshDelete(r)

\* One step of request r: login or refresh.
RefreshStep(r) ==
    \/ StartLogin(r)
    \/ StartRefresh(r)
    \/ Authenticate(r)
    \/ Login(r)
    \/ CreateSession(r, MaxSessions + 1)
    \/ Sign(r)
    \/ RefreshFind(r)
    \/ RefreshDelete(r)

(***************************************************************************)
(* Specifications.                                                         *)
(***************************************************************************)
\* The role assignments of the registered users: everyone is a consumer,
\* u2 also owns the franchise org1.
SeededAssignments ==
    {[userId |-> "u1", role |-> "consumer", organizationId |-> Null],
     [userId |-> "u2", role |-> "consumer", organizationId |-> Null],
     [userId |-> "u2", role |-> "franchise_owner", organizationId |-> "org1"]}

\* The e-mail each of them registered with, lower-cased.
SeededEmail == [u \in Users |-> IF u = "u1" THEN <<"a">> ELSE <<"b">>]

\* The database after the seed and the registration of the users in registered.
InitDb(registered) ==
    /\ now = 0
    /\ users = [u \in registered |->
                    [email |-> SeededEmail[u],
                     passwordHash |-> hashPassword("pw1"), isActive |-> TRUE,
                     lastLoginAt |-> <<>>]]
    /\ sessions = {}
    /\ roleAssignments = {ra \in SeededAssignments : ra.userId \in registered}
    /\ nextSessionId = 1
    /\ issued = {}
    /\ pc = [r \in Reqs |-> "idle"]
    /\ req = [r \in Reqs |-> IdleReq]
    /\ consents = {}

NoAuthz ==
    /\ authzUser = NoUser
    /\ authzChecks = <<>>
    /\ authzOutcome = "pending"
    /\ authzRoleNames = <<>>
    /\ roleOutcome = "pending"

Init == InitDb({"u1"}) /\ NoAuthz

\* Requests in flight interleave at their persistence calls; the clock stands.
Next == \E r \in Reqs : Step(r)

Spec == Init /\ [][Next]_vars

\* One step of request r: register.
RegisterStep(r) ==
    \/ StartRegister(r)
    \/ RegisterFind(r)
    \/ RegisterCreate(r)
    \/ RegisterAssignRole(r)
    \/ CreateSession(r, MaxSessions)
    \/ Sign(r)

\* Registrations in flight interleave at their persistence calls; nobody is
\* registered at the start.
InitRegister == InitDb({}) /\ NoAuthz

NextRegister == \E r \in Reqs : RegisterStep(r)

SpecRegister == InitRegister /\ [][NextRegister]_vars

\* Logins and refreshes in flight interleave at their persistence calls.
InitRefresh == InitDb({"u1"}) /\ NoAuthz

NextRefresh == \E r \in Reqs : RefreshStep(r)

SpecRefresh == InitRefresh /\ [][NextRefresh]_vars

\* One user and one request at a time (login, me, logout, refresh), while
\* the clock runs and the user may get deactivated.
InitClock == InitDb({"u1"}) /\ NoAuthz

NextClock ==
    \/ Tick
    \/ \E u \in DOMAIN users : Deactivate(u)
    \/ StartLogin("r1")
    \/ StartMe("r1")
    \/ StartLogout("r1")
    \/ StartRefresh("r1")
    \/ Authenticate("r1")
    \/ Login("r1")
    \/ CreateSession("r1", MaxSessions)
    \/ Sign("r1")
    \/ LogoutFind("r1")
    \/ LogoutDelete("r1")
    \/ RefreshFind("r1")
    \/ RefreshDelete("r1")

SpecClock == InitClock /\ [][NextClock]_vars

\* One request at a time over the routes that write sessions (register,
\* login, logout, refresh, change-password) while the clock runs.
InitLife == InitDb({"u1"}) /\ NoAuthz

NextLife ==
    \/ Tick
    \/ StartRegister("r1")
    \/ StartLogin("r1")
    \/ StartLogout("r1")
    \/ StartRefresh("r1")
    \/ StartChangePassword("r1")
    \/ Authenticate("r1")
    \/ VerifyCsrf("r1")
    \/ RegisterFind("r1")
    \/ RegisterCreate("r1")
    \/ RegisterAssignRole("r1")
    \/ Login("r1")
    \/ CreateSession("r1", MaxSessions)
    \/ Sign("r1")
    \/ LogoutFind("r1")
    \/ LogoutDelete("r1")
    \/ ChangePasswordFind("r1")
    \/ ChangePasswordTxn("r1")
    \/ RefreshFind("r1")
    \/ RefreshDelete("r1")

SpecLife == InitLife /\ [][NextLife]_vars

\* One request at a time over login and the two member routes; both seeded
\* users are registered, u2 owns org1.
InitOrg == InitDb(Users) /\ NoAuthz

NextOrg ==
    \/ StartLogin("r1")
    \/ StartAddMember("r1")
    \/ StartRemoveMember("r1")
    \/ Authenticate("r1")
    \/ Login("r1")
    \/ CreateSession("r1", MaxSessions)
    \/ Sign("r1")
    \/ MemberPermission("r1")
    \/ MemberCreate("r1")
    \/ MemberDeleteMany("r1")

SpecOrg == InitOrg /\ [][NextOrg]_vars

\* One request at a time over login and logout; both seeded users are
\* registered and may hold several sessions.
InitLogout == InitDb(Users) /\ NoAuthz

NextLogout ==
    \/ StartLogin("r1")
    \/ StartLogout("r1")
    \/ Authenticate("r1")
    \/ Login("r1")
    \/ CreateSession("r1", MaxSessions + 1)
    \/ Sign("r1")
    \/ LogoutFind("r1")
    \/ LogoutDelete("r1")

SpecLogout == InitLogout /\ [][NextLogout]_vars

\* One request at a time over login, refresh and change-password; both
\* seeded users are registered and may hold several sessions.
InitCsrf == InitDb(Users) /\ NoAuthz

NextCsrf ==
    \/ StartLogin("r1")
    \/ StartRefresh("r1")
    \/ StartChangePassword("r1")
    \/ Authenticate("r1")
    \/ VerifyCsrf("r1")
    \/ Login("r1")
    \/ CreateSession("r1", MaxSessions + 1)
    \/ Sign("r1")
    \/ RefreshFind("r1")
    \/ RefreshDelete("r1")
    \/ ChangePasswordFind("r1")
    \/ ChangePasswordTxn("r1")

SpecCsrf == InitCsrf /\ [][NextCsrf]_vars

\* Requests recording consents may interleave at their persistence calls;
\* the user logs in first.
ConsentStep(r) ==
    \/ StartLogin(r)
    \/ StartConsent(r)
    \/ Authenticate(r)
    \/ Login(r)
    \/ CreateSession(r, MaxSessions)
    \/ Sign(r)
    \/ ConsentFindProfile(r)
    \/ ConsentRevoke(r)
    \/ ConsentCreate(r)

InitConsent == InitDb({"u1"}) /\ NoAuthz

NextConsent == \E r \in Reqs : ConsentStep(r)

SpecConsent == InitConsent /\ [][NextConsent]_vars

\* One request at a time over login, logout, refresh and change-password
\* while the clock runs; u1 is registered.
InitExpiry == InitDb({"u1"}) /\ NoAuthz

NextExpiry ==
    \/ Tick
    \/ StartLogin("r1")
    \/ StartLogout("r1")
    \/ StartRefresh("r1")
    \/ StartChangePassword("r1")
    \/ Authenticate("r1")
    \/ VerifyCsrf("r1")
    \/ Login("r1")
    \/ CreateSession("r1", MaxSessions)
    \/ Sign("r1")
    \/ LogoutFind("r1")
    \/ LogoutDelete("r1")
    \/ ChangePasswordFind("r1")
    \/ ChangePasswordTxn("r1")
    \/ RefreshFind("r1")
    \/ RefreshDelete("r1")

SpecExpiry == InitExpiry /\ [][NextExpiry]_vars

\* One request at a time: register, me and logout, while the clock runs and
\* users may get deactivated; nobody is registered at the start.
InitSignup == InitDb({}) /\ NoAuthz

NextSignup ==
    \/ Tick
    \/ \E u \in DOMAIN users : Deactivate(u)
    \/ StartRegister("r1")
    \/ StartMe("r1")
    \/ StartLogout("r1")
    \/ Authenticate("r1")
    \/ RegisterFind("r1")
    \/ RegisterCreate("r1")
    \/ RegisterAssignRole("r1")
    \/ CreateSession("r1", MaxSessions)
    \/ Sign("r1")
    \/ LogoutFind("r1")
    \/ LogoutDelete("r1")

SpecSignup == InitSignup /\ [][NextSignup]_vars

InitPerm ==
    /\ InitDb(Users)
    /\ authzUser \in Identities
    /\ authzChecks \in SeqsUpTo(PermissionChecks, MaxChecks)
    /\ authzOutcome = "pending"
    /\ authzRoleNames = <<>>
    /\ roleOutcome = "pending"

NextPerm == RequirePermission

SpecPerm == InitPerm /\ [][NextPerm]_vars

\* The role names of held assignments, and those a route may ask for.
HeldRoleNames == {"consumer", "franchise_owner"}
RequiredRoleNames == {"franchise_owner", "super_admin"}

\* AuthenticatedUser.roles[i] with its role: name, organizationId, grants.
NamedAssignments ==
    {[role |-> n, organizationId |-> o, permissions |-> ps] :
        n \in HeldRoleNames, o \in {Null, "org1"},
        ps \in {<<>>, <<[permission |-> "menu.update", scope |-> Null]>>}}

\* req.user as the two authorization gates see it.
NamedIdentities ==
    {NoUser} \cup
    {[roles |-> SetToSeq(ras)] : ras \in SubsetsUpTo(NamedAssignments, MaxAssignments)}

\* Both authorization gates, each run once on the same identity.
InitGate ==
    /\ InitDb(Users)
    /\ authzUser \in NamedIdentities
    /\ authzChecks \in SeqsUpTo([permission : {"menu.update"},
                                  scope : {Undefined},
                                  organizationId : {Undefined, "org1"}], MaxChecks)
    /\ authzOutcome = "pending"
    /\ authzRoleNames \in SeqsUpTo(RequiredRoleNames, MaxChecks)
    /\ roleOutcome = "pending"

NextGate == RequirePermission \/ RequireRole

SpecGate == InitGate /\ [][NextGate]_vars

\* req.user as authenticate builds it for a seeded user.
SnapshotOf(u) ==
    [roles |-> SetToSeq({[role |-> ra.role,
                          organizationId |-> ra.organizationId,
                          permissions |-> RoleGrants(ra.role)] :
                            ra \in {x \in SeededAssignments : x.userId = u}})]

\* The four gates of shared/middleware/auth.ts next to the routes that run
\* authenticate and verifyCsrf, while the clock runs and a user may get
\* deactivated.  The authorization gates decide on an identity snapshot.
InitFrame ==
    /\ InitDb({"u1"})
    /\ authzUser \in {NoUser, SnapshotOf("u2")}
    /\ authzChecks = <<[permission |-> "menu.manage", scope |-> Undefined,
                        organizationId |-> Undefined]>>
    /\ authzOutcome = "pending"
    /\ authzRoleNames = <<"super_admin">>
    /\ roleOutcome = "pending"

NextFrame ==
    \/ Tick
    \/ \E u \in DOMAIN users : Deactivate(u)
    \/ RequirePermission
    \/ RequireRole
    \/ StartLogin("r1")
    \/ StartMe("r1")
    \/ StartChangePassword("r1")
    \/ Authenticate("r1")
    \/ VerifyCsrf("r1")
    \/ Login("r1")
    \/ CreateSession("r1", MaxSessions)
    \/ Sign("r1")
    \/ ChangePasswordFind("r1")
    \/ ChangePasswordTxn("r1")

SpecFrame == InitFrame /\ [][NextFrame]_vars

(***************************************************************************)
(* Claims about requirePermission, checked under SpecPerm.                 *)
(***************************************************************************)
\* A requirement names an organization / a scope when the optional field is
\* given and not empty.
NamesOrganization(check) == check.organizationId \notin {Undefined, ""}
NamesScope(check) == check.scope \notin {Undefined, ""}

\* The three conditions of the matching rule, for assignment i of the identity.
RuleSatisfiedBy(user, check, i) ==
    LET ra == user.roles[i]
    IN /\ (~NamesOrganization(check) \/ ra.organizationId = check.organizationId)
       /\ \E j \in DOMAIN ra.permissions :
            /\ ra.permissions[j].permission = check.permission
            /\ (~NamesScope(check) \/ ra.permissions[j].scope = check.scope)

RuleSatisfied(user, check) ==
    \E i \in DOMAIN user.roles : RuleSatisfiedBy(user, check, i)

PermDecided == authzOutcome # "pending" /\ authzUser # NoUser

\* C6: with a single requirement, requirePermission calls next iff some held
\* role assignment satisfies all of: (1) the requirement names no organization
\* or the assignment's organizationId equals it, (2) the role grants an entry
\* with the required permission name, (3) for that same entry the requirement
\* names no scope or the entry's scope equals it.
C6_SingleRequirementRule ==
    (PermDecided /\ Len(authzChecks) = 1) =>
        (authzOutcome = "next" <=> RuleSatisfied(authzUser, authzChecks[1]))

\* C6 witness: a requirement with scope and organization, allowed through the
\* second assignment while the first one holds the permission in another
\* organization.
C6_Witness ==
    /\ PermDecided /\ Len(authzChecks) = 1
    /\ NamesOrganization(authzChecks[1]) /\ NamesScope(authzChecks[1])
    /\ Len(authzUser.roles) = 2
    /\ ~RuleSatisfiedBy(authzUser, authzChecks[1], 1)
    /\ Len(authzUser.roles[1].permissions) = 2
    /\ authzOutcome = "next"

\* The assignments of the identity whose role grants the permission name.
GrantingAssignments(user, check) ==
    {i \in DOMAIN user.roles :
        \E j \in DOMAIN user.roles[i].permissions :
            user.roles[i].permissions[j].permission = check.permission}

\* C7: a requirement naming an organization is never satisfied when every
\* assignment granting the permission carries another organizationId or null.
C7_OrgRequirementNeedsSameOrg ==
    (/\ PermDecided /\ Len(authzChecks) = 1
     /\ NamesOrganization(authzChecks[1])
     /\ \A i \in GrantingAssignments(authzUser, authzChecks[1]) :
            authzUser.roles[i].organizationId # authzChecks[1].organizationId)
        => authzOutcome = "Forbidden"

\* C7 witness: the permission is held globally and in another organization,
\* and the organization-scoped requirement is refused.
C7_Witness ==
    /\ PermDecided /\ Len(authzChecks) = 1
    /\ authzChecks[1].organizationId = "org1"
    /\ ~NamesScope(authzChecks[1])
    /\ GrantingAssignments(authzUser, authzChecks[1]) = {1, 2}
    /\ {authzUser.roles[i].organizationId : i \in {1, 2}} = {Null, "org2"}
    /\ authzOutcome = "Forbidden"

\* What the middleware built with the single requirement c decides.
AllowsAlone(c) == RequirePermissionOutcome(authzUser, <<c>>) = "next"

\* C8: requirePermission(A, B) allows the request iff requirePermission(A)
\* or requirePermission(B) allows it, and requirePermission(B, A) decides
\* the same.
C8_RequirementsAreAlternatives ==
    (PermDecided /\ Len(authzChecks) = 2) =>
        /\ (authzOutcome = "next"
                <=> (AllowsAlone(authzChecks[1]) \/ AllowsAlone(authzChecks[2])))
        /\ authzOutcome =
                RequirePermissionOutcome(authzUser, <<authzChecks[2], authzChecks[1]>>)

\* C8 witness: the first requirement alone is refused, the second alone is
\* allowed, and the pair is allowed.
C8_Witness ==
    /\ PermDecided /\ Len(authzChecks) = 2
    /\ ~AllowsAlone(authzChecks[1]) /\ AllowsAlone(authzChecks[2])
    /\ authzOutcome = "next"

(***************************************************************************)
(* Sessions: expiry, rotation, password change, CSRF.                      *)
(***************************************************************************)
\* The session row an assertion references.
RowOf(token) == FindSession(token.sessionId)

\* C1: for an issued credential whose assertion verifies and whose owner is
\* active, authenticate accepts the session exactly at the instants strictly
\* before its expiry T, and rejects it at and after T (now = T included).
C1_ValidStrictlyBeforeExpiry ==
    \A c \in issued :
        (/\ RowOf(c.token) # NoSession
         /\ JwtVerify(c.token, now)
         /\ users[c.token.userId].isActive)
            => (AuthenticateOutcome(c.token, now) = "next"
                    <=> now < RowOf(c.token).expiresAt)

\* authenticate has just called next() for request r.
Attached(r) ==
    /\ pc[r] = "authenticate"
    /\ \/ req'[r].user # NoUser
       \/ req[r].op = "me" /\ req'[r].res = Ok

\* C2: authenticate attaches an identity only if the assertion verifies, the
\* session row it references exists, the session is not expired (now is
\* before its expiry) and the owning user is active.
C2_IdentityOnlyForLiveSession ==
    [][\A r \in Reqs :
        Attached(r) =>
            LET token == req[r].cookie
            IN /\ JwtVerify(token, now)
               /\ RowOf(token) # NoSession
               /\ now < RowOf(token).expiresAt
               /\ users[token.userId].isActive]_vars

\* The credentials returned by a refresh.
Refreshed == {c \in issued : c.via = "refresh"}

\* After a refresh returned, no cookie naming the old session passes
\* authenticate and the old row is gone.
OldSessionInvalid(c) ==
    /\ FindSession(c.replaced) = NoSession
    /\ \A t \in IssuedTokens :
            t.sessionId = c.replaced => AuthenticateOutcome(t, now) # "next"

\* C3 as stated: after refreshSession returned, the old session id fails
\* authenticate in every later state and the new credential passes
\* authenticate for as long as the new session exists unexpired.
C3_NewCredentialValidUntilSessionEnds ==
    \A c \in Refreshed :
        /\ OldSessionInvalid(c)
        /\ (RowOf(c.token) # NoSession /\ now < RowOf(c.token).expiresAt)
                => AuthenticateOutcome(c.token, now) = "next"

\* C3 amended: after refreshSession returned, the old session id fails
\* authenticate in every later state, and the new credential passes
\* authenticate while its assertion has not expired, the new session exists
\* unexpired and the owner is active.
C3_RefreshRotates ==
    \A c \in Refreshed :
        /\ OldSessionInvalid(c)
        /\ (/\ RowOf(c.token) # NoSession
            /\ now < RowOf(c.token).expiresAt
            /\ JwtVerify(c.token, now)
            /\ users[c.token.userId].isActive)
                => AuthenticateOutcome(c.token, now) = "next"

\* C3 witness: a refresh returned; the new credential passes authenticate and
\* the assertion of the old session, itself not yet expired, is refused.
C3_Witness ==
    \E c \in Refreshed :
        /\ AuthenticateOutcome(c.token, now) = "next"
        /\ \E t \in IssuedTokens :
                /\ t.sessionId = c.replaced
                /\ JwtVerify(t, now)
                /\ AuthenticateOutcome(t, now) = "Session expired or invalid"

\* C4: a refresh that loses the race for the old row ends with the
\* stale-session outcome, never with the unhandled error of deleting a row
\* that is gone; at most one refresh of a session returns a replacement.
C4_LoserGetsStaleSession ==
    /\ \A r \in Reqs :
            (pc[r] = "done" /\ req[r].op = "refresh")
                => req[r].res # InternalError
    /\ \A c, d \in Refreshed : c.replaced = d.replaced => c = d

\* The transaction of change-password request r commits in this step.
Commits(r) == pc[r] = "changePassword_txn" /\ pc'[r] = "done"

\* C5: the step that stores the new password hash leaves no session of that
\* user that existed before it, every credential issued to the user before
\* it fails authenticate after it, and a credential whose session row is
\* gone never passes again.
C5_PasswordChangeRevokesAll ==
    [][/\ \A r \in Reqs :
            Commits(r) =>
                LET userId == req[r].user.id
                IN /\ users'[userId].passwordHash = req[r].local.passwordHash
                   /\ \A session \in sessions :
                        session.userId = userId => session \notin sessions'
                   /\ \A c \in issued :
                        c.token.userId = userId
                            => (AuthenticateOutcome(c.token, now))' # "next"
       /\ \A c \in issued :
            RowOf(c.token) = NoSession => (RowOf(c.token))' = NoSession]_vars

\* C5 witness: a change-password answered 200, the stored hash is the new
\* one, and a credential issued before it, its assertion still verifying,
\* is refused.
C5_Witness ==
    \E r \in Reqs :
        /\ pc[r] = "done" /\ req[r].op = "changePassword" /\ req[r].res = Ok
        /\ users["u1"].passwordHash = hashPassword("pw2")
        /\ \E c \in issued :
                /\ JwtVerify(c.token, now)
                /\ AuthenticateOutcome(c.token, now) = "Session expired or invalid"

\* C9: verifyCsrf calls next() iff the header is present, non-empty and equal
\* to the CSRF token of the session authenticate resolved; otherwise the
\* request ends with Forbidden, no handler step runs and nothing is written.
C9_CsrfGate ==
    [][\A r \in Reqs :
        (pc[r] = "verifyCsrf" /\ pc'[r] # pc[r]) =>
            LET header == req[r].header
                stored == req[r].csrfToken
            IN /\ \A session \in sessions :
                    session.id = req[r].user.sessionId
                        => session.csrfToken = stored
               /\ IF header \notin {Undefined, ""} /\ header = stored
                  THEN pc'[r] = "changePassword_find"
                  ELSE /\ pc'[r] = "done"
                       /\ req'[r].res = ForbiddenError("Invalid CSRF token")
                       /\ UNCHANGED <<dbVars, issued>>]_vars

\* C9 witness: one change-password passed the gate with the matching header
\* while another was refused with Forbidden.
C9_Witness ==
    \E r, q \in Reqs :
        /\ pc[r] = "changePassword_find"
        /\ req[r].header = req[r].csrfToken
        /\ pc[q] = "done" /\ req[q].op = "changePassword"
        /\ req[q].res = ForbiddenError("Invalid CSRF token")

\* C10: a request behind the authentication gate changes persisted state
\* only if it presented a CSRF token equal to its session's stored one.
C10_MutationNeedsCsrf ==
    [][\A r \in Reqs :
        (/\ req[r].user # NoUser
         /\ pc'[r] # pc[r]
         /\ <<users', sessions'>> # <<users, sessions>>)
            => ~CsrfRejected(req[r].header, req[r].csrfToken)]_vars

(***************************************************************************)
(* Login, registration, logout, refresh: outcomes.                         *)
(***************************************************************************)
\* The password of a login body does not open any account: the e-mail is
\* not registered, or the password does not verify against the stored hash.
WrongPassword(body) ==
    LET userId == FindUserByEmail(toLowerCase(body.email))
    IN userId = Null \/ ~verifyPassword(body.password, users[userId].passwordHash)

\* C12: a registration whose lower-cased email is stored already ends with
\* Conflict and writes nothing, also when the address was taken while the
\* request was in flight; no two users share a case-normalized email.
C12_DuplicateEmailConflicts ==
    [][\A r \in Reqs :
        (/\ pc[r] \in {"register_find", "register_create"}
         /\ pc'[r] # pc[r]
         /\ FindUserByEmail(toLowerCase(req[r].body.email)) # Null)
            => /\ pc'[r] = "done"
               /\ req'[r].res = ConflictError("Email already registered")
               /\ UNCHANGED <<dbVars, issued>>
               /\ \A u, v \in DOMAIN users' :
                    toLowerCase(users'[u].email) = toLowerCase(users'[v].email)
                        => u = v]_vars

\* C11: a login with a wrong password is answered with the same error and
\* message whether the e-mail belongs to no user, to an active user or to a
\* deactivated user.
C11_LoginFailuresIndistinguishable ==
    [][\A r \in Reqs :
        (pc[r] = "login" /\ pc'[r] = "done" /\ WrongPassword(req[r].body))
            => req'[r].res = UnauthorizedError("Invalid email or password")]_vars

\* C13: logout(sessionId) completes without error and leaves the session
\* absent, whether or not the session still exists at its lookup or at its
\* delete.
C13_LogoutIsIdempotent ==
    [][\A r \in Reqs :
        (pc[r] \in {"logout_find", "logout_delete"} /\ pc'[r] = "done")
            => /\ req'[r].res = Ok
               /\ \A session \in sessions' : session.id # req[r].user.sessionId]_vars

\* The session is expired at this instant (now is at or after its expiry)
\* or its row does not exist.
ExpiredOrGone(session) ==
    session = NoSession \/ now >= session.expiresAt

\* C14: refreshSession on a session that is already expired or no longer
\* exists returns null (answered SESSION_EXPIRED, not an error), creates no
\* session and deletes nothing.
C14_RefreshOfExpiredReturnsNull ==
    [][\A r \in Reqs :
        (/\ pc[r] = "refresh_find" /\ pc'[r] # pc[r]
         /\ ExpiredOrGone(FindSession(req[r].user.sessionId)))
            => /\ pc'[r] = "done"
               /\ req'[r].res = SessionExpired
               /\ UNCHANGED <<sessions, nextSessionId>>]_vars

(***************************************************************************)
(* The authorization gates, checked under SpecGate.                        *)
(***************************************************************************)
\* The three outcomes of a gate that has run on identity user, where
\* satisfied says that some requirement (or role name) is met.
GateOutcomeIs(outcome, user, satisfied) ==
    /\ outcome \in {"Unauthenticated", "Forbidden", "next"}
    /\ outcome = "Unauthenticated" <=> user = NoUser
    /\ outcome = "Forbidden" <=> (user # NoUser /\ ~satisfied)
    /\ outcome = "next" <=> (user # NoUser /\ satisfied)

\* Some supplied requirement is satisfied by the identity.
SomeRequirementSatisfied ==
    \E i \in DOMAIN authzChecks : RuleSatisfied(authzUser, authzChecks[i])

\* Some held assignment's role name is among the supplied role names.
SomeRoleNameHeld(user, roleNames) ==
    \E i \in DOMAIN user.roles :
        \E j \in DOMAIN roleNames : user.roles[i].role = roleNames[j]

\* Both gates have decided as the claim says.
GatesDecideAsClaimed ==
    /\ authzOutcome # "pending" =>
            GateOutcomeIs(authzOutcome, authzUser,
                          authzUser # NoUser /\ SomeRequirementSatisfied)
    /\ roleOutcome # "pending" =>
            GateOutcomeIs(roleOutcome, authzUser,
                          authzUser # NoUser
                            /\ SomeRoleNameHeld(authzUser, authzRoleNames))

\* C15: requirePermission and requireRole end with Unauthenticated when no
\* identity is present, with Forbidden when an identity is present and no
\* requirement (or role name) is satisfied, and call next otherwise; each
\* gate decides once and its outcome never changes afterwards.
C15_GateOutcomesPartition ==
    [][/\ GatesDecideAsClaimed'
       /\ authzOutcome # "pending" => authzOutcome' = authzOutcome
       /\ roleOutcome # "pending" => roleOutcome' = roleOutcome]_vars

\* C15 witness: on the same identity requirePermission refused with
\* Forbidden and requireRole called next.
C15_Witness ==
    /\ authzUser # NoUser
    /\ authzOutcome = "Forbidden" /\ roleOutcome = "next"

\* The identity with every organizationId and every grant removed.
RoleNamesOnly(user) ==
    [roles |-> [i \in DOMAIN user.roles |->
                    [role |-> user.roles[i].role,
                     organizationId |-> Null,
                     permissions |-> <<>>]]]

\* C16: requireRole allows an identity iff some held assignment's role name
\* is among roleNames, and decides the same for the identity stripped of its
\* organizationIds, permissions and scopes.
C16_RoleGateIgnoresOrgAndGrants ==
    (roleOutcome # "pending" /\ authzUser # NoUser) =>
        /\ roleOutcome = "next" <=> SomeRoleNameHeld(authzUser, authzRoleNames)
        /\ roleOutcome = RequireRoleOutcome(RoleNamesOnly(authzUser), authzRoleNames)

\* C16 witness: the only assignment with a required role name is bound to
\* an organization and grants nothing, the name is the second one asked
\* for, and the request is allowed.
C16_Witness ==
    /\ roleOutcome = "next"
    /\ Len(authzRoleNames) = 2 /\ authzRoleNames[2] = "franchise_owner"
    /\ authzRoleNames[1] = "super_admin"
    /\ Len(authzUser.roles) = 2
    /\ \A i \in DOMAIN authzUser.roles :
            authzUser.roles[i].role = "franchise_owner"
                => /\ authzUser.roles[i].organizationId = "org1"
                   /\ authzUser.roles[i].permissions = <<>>

\* C18: every response that fails with Unauthenticated (status 401) clears
\* the auth_token cookie, and no response that fails with Forbidden (status
\* 403) clears it.
C18_UnauthenticatedClearsCookie ==
    \A r \in Reqs :
        pc[r] = "done" =>
            /\ req[r].res.status = 401 => req[r].clearCookie
            /\ req[r].res.status = 403 => ~req[r].clearCookie

(***************************************************************************)
(* The life of a session.                                                  *)
(***************************************************************************)
\* authenticate rejects the credential for its session: the row is gone
\* (logout, password change, refresh) or its expiry has passed.
SessionDead(c) ==
    RowOf(c.token) = NoSession \/ RowOf(c.token).expiresAt < now

\* C17: a session that authenticate rejects because it expired or its row
\* was deleted or replaced stays rejected: after any step of register,
\* login, logout, refresh, change-password or the clock it is still dead
\* and authenticate does not accept it.
C17_SessionNeverRevives ==
    [][\A c \in issued :
        SessionDead(c) =>
            /\ SessionDead(c)'
            /\ (AuthenticateOutcome(c.token, now))' # "next"]_vars

\* C17 witness: a credential whose session row is gone and whose assertion
\* still verifies is refused, while a session created later for the same
\* user is accepted.
C17_Witness ==
    \E c, d \in issued :
        /\ RowOf(c.token) = NoSession /\ JwtVerify(c.token, now)
        /\ AuthenticateOutcome(c.token, now) = "Session expired or invalid"
        /\ d.token.userId = c.token.userId
        /\ d.token.sessionId > c.token.sessionId
        /\ AuthenticateOutcome(d.token, now) = "next"

\* The credentials returned by a registration.
Registered == {c \in issued : c.via = "register"}

\* The lower-cased form of the addresses registrations are made with.
LowerCased(email) ==
    CASE email = <<"A">> -> <<"a">>
      [] email = <<"B">> -> <<"b">>
      [] OTHER -> email

\* The credential passes authenticate and resolves to its user, whose email
\* (the value GET /auth/me returns) is the registered address lower-cased.
ResolvesToRegistrant(c) ==
    /\ AuthenticateOutcome(c.token, now) = "next"
    /\ AuthenticatedUser(RowOf(c.token)).id = c.token.userId
    /\ AuthenticatedUser(RowOf(c.token)).email = LowerCased(c.email)

\* C19 as stated: the credential of a registration resolves to the new
\* user for as long as its session exists unexpired.
C19_ValidWhileSessionLives ==
    \A c \in Registered :
        (RowOf(c.token) # NoSession /\ now < RowOf(c.token).expiresAt)
            => ResolvesToRegistrant(c)

\* C19 amended: the credential of a registration resolves to the new user,
\* whose email is the registered address lower-cased, while its assertion
\* has not expired, its session exists unexpired and the user is active.
C19_RegistrantResolves ==
    \A c \in Registered :
        (/\ RowOf(c.token) # NoSession
         /\ now < RowOf(c.token).expiresAt
         /\ JwtVerify(c.token, now)
         /\ users[c.token.userId].isActive)
            => ResolvesToRegistrant(c)

\* C19 witness: a registration made with an upper-case address resolves to
\* the user with the lower-cased one.
C19_Witness ==
    \E c \in Registered :
        /\ c.email = <<"A">>
        /\ ResolvesToRegistrant(c)
        /\ users[c.token.userId].email = <<"a">>

(***************************************************************************)
(* The gates and persisted state, checked under SpecFrame.                 *)
(***************************************************************************)
\* A step of authenticate or verifyCsrf on a request, or a decision of
\* requirePermission or requireRole.
GateStep ==
    \/ \E r \in Reqs : pc[r] \in {"authenticate", "verifyCsrf"} /\ pc'[r] # pc[r]
    \/ authzOutcome' # authzOutcome
    \/ roleOutcome' # roleOutcome

\* C20: authenticate, requirePermission, requireRole and verifyCsrf leave
\* the persisted state (users, sessions, role assignments) as it was,
\* whether they accept or reject, and requirePermission's decision is the
\* function RequirePermissionOutcome of the identity snapshot and the
\* requirements, whatever the database holds by then.
C20_GatesLeavePersistedStateAlone ==
    [][GateStep =>
        /\ UNCHANGED dbVars
        /\ authzOutcome' # authzOutcome =>
              authzOutcome' = RequirePermissionOutcome(authzUser, authzChecks)]_vars

\* C20 witness: authenticate and verifyCsrf have accepted a request while a
\* session row exists, requirePermission has accepted and requireRole has
\* rejected a snapshot whose user the database does not hold.
C20_Witness ==
    /\ pc["r1"] = "changePassword_find"
    /\ sessions # {}
    /\ authzOutcome = "next"
    /\ roleOutcome = "Forbidden"
    /\ "u2" \notin DOMAIN users

(***************************************************************************)
(* Refresh as a replacement, checked under SpecRefresh.                    *)
(***************************************************************************)
\* No request is in flight.
Quiescent == \A r \in Reqs : pc[r] \in {"idle", "done"}

\* C21: refreshSession replaces a session atomically: once every request
\* has returned, each session row in the database has had its credential
\* returned to a caller, and a refreshed session is not present next to its
\* replacement.
C21_RefreshIsAtomic ==
    Quiescent =>
        /\ \A session \in sessions :
              \E c \in issued : c.token.sessionId = session.id
        /\ \A c \in issued :
              c.via = "refresh" => FindSession(c.replaced) = NoSession

\* The session a refresh is replacing is valid: it exists, has not expired
\* and its owner is active.
RefreshedSessionValid(r) ==
    LET old == FindSession(req[r].local.old)
    IN /\ old # NoSession
       /\ now < old.expiresAt
       /\ users[old.userId].isActive

\* C22: refreshSession creates the replacement session only if the current
\* session is valid at that moment (checked under SpecClock).
C22_RefreshOnlyOfValidSession ==
    [][\A r \in Reqs :
        (pc[r] = "createSession" /\ req[r].op = "refresh" /\ pc'[r] = "sign")
            => RefreshedSessionValid(r)]_vars

(***************************************************************************)
(* Null-scope grants, checked under SpecPerm.                              *)
(***************************************************************************)
\* The identity holds the required permission through a grant without scope.
HoldsUnscoped(user, check) ==
    \E i \in DOMAIN user.roles :
        \E j \in DOMAIN user.roles[i].permissions :
            /\ user.roles[i].permissions[j].permission = check.permission
            /\ user.roles[i].permissions[j].scope = Null

\* C23: a grant whose scope is null is an any-scope grant: an identity
\* holding the permission through such a grant satisfies a requirement for
\* it whatever scope the requirement names, when no organization is required.
C23_NullScopeGrantIsAnyScope ==
    (/\ PermDecided /\ Len(authzChecks) = 1
     /\ ~NamesOrganization(authzChecks[1])
     /\ HoldsUnscoped(authzUser, authzChecks[1]))
        => authzOutcome = "next"

(***************************************************************************)
(* The expiry of a session, checked under SpecExpiry.                      *)
(***************************************************************************)
\* The ids of the session rows.
SessionIds == {s.id : s \in sessions}

\* C24: a session's expiry is set once, at creation, to the creation
\* instant plus the session lifetime, and no step of login, logout, refresh,
\* change-password or the clock changes the expiresAt of an existing row.
C24_ExpirySetOnceAtCreation ==
    [][\A t \in sessions' :
        IF t.id \in SessionIds
        THEN t.expiresAt = FindSession(t.id).expiresAt
        ELSE t.expiresAt = now + SessionLifetimeSec * TicksPerSec]_vars

\* C24 witness: the session returned by a refresh still carries the expiry
\* it was created with after the clock has moved on.
C24_Witness ==
    \E c \in issued :
        /\ c.via = "refresh"
        /\ RowOf(c.token).expiresAt < now + SessionLifetimeSec * TicksPerSec
        /\ RowOf(c.token) # NoSession
        /\ RowOf(c.token).expiresAt > SessionLifetimeSec * TicksPerSec
        /\ pc["r1"] = "done"

(***************************************************************************)
(* Consents, checked under SpecConsent.                                    *)
(***************************************************************************)
\* The consents of a profile and type that are in force.
ActiveConsents(profileId, type) ==
    {c \in consents :
        c.profileId = profileId /\ c.type = type /\ c.revokedAt = NotRevoked}

\* C25: for every profile and consent type at most one consent record has
\* revokedAt = null, also when two requests for the same profile and type
\* interleave.
C25_AtMostOneActiveConsent ==
    \A u \in Users, type \in ConsentTypes :
        Cardinality(ActiveConsents(u, type)) <= 1

(***************************************************************************)
(* Login racing a password change, checked under Spec.                     *)
(***************************************************************************)
\* Login request r returns its credential in this step.
LoginReturns(r) == pc[r] = "sign" /\ req[r].op = "login" /\ pc'[r] = "done"

\* C26: when a login returns, the session it created is gone or the
\* password it verified is still the stored one: no session authenticated
\* with a superseded password outlives the password change.
C26_NoSessionFromSupersededPassword ==
    [][\A r \in Reqs :
        LoginReturns(r) =>
            \/ req[r].local.newSession \notin sessions'
            \/ verifyPassword(req[r].body.password,
                              users'[req[r].local.userId].passwordHash)]_vars

(***************************************************************************)
(* Rejected credentials, checked under SpecFrame.                          *)
(***************************************************************************)
\* Request r is refused by the credential check of login or changePassword
\* in this step.
CredentialRejected(r) ==
    /\ pc[r] \in {"login", "changePassword_find"}
    /\ pc'[r] = "done"

\* C28: a failed credential check changes no persisted state: a login
\* refused for an unknown email, a wrong password or a deactivated account
\* creates no session and leaves lastLoginAt alone, and a changePassword
\* refused for a wrong current password leaves the stored hash and every
\* session as they were.
C28_RejectedCredentialWritesNothing ==
    [][\A r \in Reqs :
        CredentialRejected(r) =>
            /\ req'[r].res.status = 401
            /\ UNCHANGED dbVars]_vars

\* C28 witness: a login to a deactivated account has been refused; the row
\* still carries the lastLoginAt of an earlier login and the session of
\* that login is still there.
C28_Witness ==
    /\ pc["r1"] = "done" /\ req["r1"].op = "login"
    /\ req["r1"].res = UnauthorizedError("Account is deactivated")
    /\ users["u1"].lastLoginAt # <<>>
    /\ users["u1"].lastLoginAt # <<now>>
    /\ sessions # {}

(***************************************************************************)
(* The tenant boundary of member writes, checked under SpecOrg.            *)
(***************************************************************************)
\* The identity holds the permission through an assignment in organization id.
HoldsIn(user, permission, id) ==
    \E i \in DOMAIN user.roles :
        /\ user.roles[i].organizationId = id
        /\ \E j \in DOMAIN user.roles[i].permissions :
              user.roles[i].permissions[j].permission = permission

\* C27: the member routes change the role assignments of organization :id
\* only if the caller holds organization.member.add (respectively
\* organization.member.remove) through an assignment in that organization.
C27_MemberWritesStayInTenant ==
    [][\A r \in Reqs :
        (/\ pc[r] \in {"member_create", "member_deleteMany"}
         /\ roleAssignments' # roleAssignments)
            => HoldsIn(req[r].user, MemberRequirement(req[r].op)[1].permission,
                       req[r].body.id)]_vars

(***************************************************************************)
(* The frame of logout, checked under SpecLogout.                          *)
(***************************************************************************)
\* The logout service of request r takes a step.
LogoutSteps(r) ==
    pc[r] \in {"logout_find", "logout_delete"} /\ pc'[r] # pc[r]

\* C29: logout(sessionId) removes exactly that session: every other session
\* is still present, every credential of another session passes authenticate
\* afterwards as it did before, and users (password hashes included) and
\* role assignments are unchanged.
C29_LogoutRemovesOnlyItsSession ==
    [][\A r \in Reqs :
        LogoutSteps(r) =>
            LET id == req[r].user.sessionId
            IN /\ \A session \in sessions :
                    session.id # id => session \in sessions'
               /\ sessions' \subseteq sessions
               /\ pc'[r] = "done" => \A session \in sessions' : session.id # id
               /\ \A c \in issued :
                    c.token.sessionId # id =>
                        (AuthenticateOutcome(c.token, now))'
                            = AuthenticateOutcome(c.token, now)
               /\ UNCHANGED <<users, roleAssignments>>]_vars

\* C29 witness: a logout has been answered; the credential of its session
\* is refused while another session of the same user and a session of the
\* other user still pass authenticate.
C29_Witness ==
    /\ pc["r1"] = "done" /\ req["r1"].op = "logout" /\ req["r1"].res = Ok
    /\ \E c, d, e \in issued :
        /\ c.token.userId = d.token.userId
        /\ e.token.userId # c.token.userId
        /\ RowOf(c.token) = NoSession
        /\ AuthenticateOutcome(d.token, now) = "next"
        /\ AuthenticateOutcome(e.token, now) = "next"

(***************************************************************************)
(* CSRF tokens and their sessions, checked under SpecCsrf.                 *)
(***************************************************************************)
\* The CSRF token drawn for the session with this id, present or deleted.
CsrfTokenOf(id) == RandomHex[id]

\* The ids of the sessions created so far.
CreatedSessionIds == 1..(nextSessionId - 1)

\* C30: a CSRF token is accepted only together with the session it was
\* issued with: verifyCsrf refuses a request that presents the CSRF token
\* of any session other than the one it authenticated with (of the same
\* user, of another user, or replaced by refresh), and the CSRF token of a
\* session row never changes.
C30_CsrfTokenBoundToSession ==
    [][/\ \A r \in Reqs :
            (/\ pc[r] = "verifyCsrf" /\ pc'[r] # pc[r]
             /\ \E id \in CreatedSessionIds \ {req[r].user.sessionId} :
                    req[r].header = CsrfTokenOf(id))
                => req'[r].res = ForbiddenError("Invalid CSRF token")
       /\ \A session \in sessions' :
            session.csrfToken = CsrfTokenOf(session.id)]_vars

\* C30 witness: a change-password has been refused for its CSRF token while
\* both users hold a session and one session came from a refresh.
C30_Witness ==
    /\ pc["r1"] = "done" /\ req["r1"].op = "changePassword"
    /\ req["r1"].res = ForbiddenError("Invalid CSRF token")
    /\ {session.userId : session \in sessions} = Users
    /\ \E c \in issued : c.via = "refresh" /\ RowOf(c.token) # NoSession

====
